---- MODULE Spec2Model ----
(***************************************************************************)
(* Batch orchestration engine of the Goofish scraper: the control surface  *)
(* (main.py), the BatchScraper orchestrator (batch_scraper.py) and the     *)
(* CSVManager checkpoint store (csv_manager.py), as one asyncio process    *)
(* with a durable checkpoint file.                                         *)
(*                                                                         *)
(* asyncio runs one coroutine at a time and switches only at an await that *)
(* really suspends, so one action below is one such atomic segment.  No    *)
(* body of "async with self._lock" in csv_manager.py contains an await,    *)
(* so the store's operations never suspend; a flush is split in steps only *)
(* because the process can be killed in the middle of it.                  *)
(***************************************************************************)
EXTENDS Integers, Sequences, FiniteSets, TLC

\* ------------------------------------------------------------------ bounds
MaxRows == 2              \* rows of the checkpoint table
MaxConc == 2              \* largest concurrency a start request asks for
MaxEvents == 3            \* start requests, cancel requests, cookie updates
                          \* and kills of the process over a behaviour
\* config.py:52 sets 50; the model runs the same comparison with a threshold
\* that a table of MaxRows rows can reach.
SAVE_INTERVAL_ROWS == 2

\* ------------------------------------------------------------- identifiers
\* Item ids as they come out of the URL column.  "token7" is an id whose
\* upper-cased text contains the keyword TOKEN.
PlainId == "7"
TokenId == "token7"
\* An id so long that the error text naming it exceeds 200 characters.
RECURSIVE Repeat(_, _)
Repeat(text, n) == IF n = 0 THEN "" ELSE text \o Repeat(text, n - 1)
LongId == Repeat("9", 170)
Ids == {PlainId, TokenId, LongId}
\* An itemId that a payload reported for an item requested under another id
\* (scraping.py:196 stores itemDO.itemId, not the id of the URL).
OtherItemId == "8"

FAILED == "FAILED"
RecordTitle == "title"

\* ------------------------------------------------------- error-message text
InterceptMsg(item_id) == "Could not intercept API response for " \o item_id
TokenMsg == "Token expired: FAIL_SYS_TOKEN_EXOIRED"
ParseJsonMsg == "type object 'GoofishScraper' has no attribute 'parse_json'"
Messages == {InterceptMsg(id) : id \in Ids} \cup {TokenMsg, ParseJsonMsg}

\* str.upper() of the texts that can occur, and the two substring tests of
\* batch_scraper.py:164 on the upper-cased text.
UpperContainsTOKEN(text) ==
    text \in {TokenMsg, InterceptMsg(TokenId)}
UpperContainsSESSION_EXPIRED(text) == FALSE

\* --------------------------------------------------------------- the table
Row(url_id, item, title) == [url |-> url_id, item |-> item, title |-> title]
PendingRow(id) == Row(id, "", "")
CompletedRow(id) == Row(id, id, RecordTitle)
FailedRow(id, reason) == Row(id, FAILED, reason)

\* The rows a checkpoint file can hold when the process starts: never
\* scraped, scraped (ITEM_ID is the id of the row's own URL, or the itemId
\* the payload carried), or marked failed by an earlier run.
InitialRows ==
    {PendingRow(id) : id \in Ids}
        \cup {CompletedRow(PlainId), Row(PlainId, OtherItemId, RecordTitle),
              FailedRow(PlainId, InterceptMsg(PlainId))}

SeqsOfLen(S, n) == [1..n -> S]
InitialTables == SeqsOfLen(InitialRows, MaxRows)

\* A file is a complete table, absent, or cut short by a kill in mid-write.
TableFile(rows) == [kind |-> "table", rows |-> rows]
NoFile == [kind |-> "nofile", rows |-> <<>>]
Truncated == [kind |-> "truncated", rows |-> <<>>]
\* self._df is None until the first successful load.
NoDf == [kind |-> "none", rows |-> <<>>]

\* csv_manager.py:16 (csv_path) and :85 (tmp_path = csv_path + ".tmp").
CsvPath == "urls.csv"
InPlacePath == CsvPath
TmpPath == CsvPath \o ".tmp"
Paths == {CsvPath, TmpPath}

DEFAULT_CONCURRENCY == 15

\* ----------------------------------------------------------------- cookies
\* A cookie dict as update_cookies receives it and as config.py:30-37 holds
\* it: name -> value, here with every value naming the session it belongs to.
CookieNames == {"_m_h5_tk", "cookie2"}
HttpOnlyNames == {"_samesite_flag_", "cookie2"}
ConfigSession == "s0"
Sessions == {ConfigSession, "s1"}
CookieDict(session) == [name \in CookieNames |-> session]
\* The list comprehension of batch_scraper.py:19-30 and :77-88.
PlaywrightCookies(dict) ==
    {[name |-> name, value |-> dict[name], httpOnly |-> name \in HttpOnlyNames] :
        name \in DOMAIN dict}
\* No cookies: a browser context before add_cookies.
NoJar == {}

VARIABLES
    fs,                  \* the files: path -> content
    df,                  \* CSVManager._df
    completed_ids,       \* CSVManager._completed_ids
    failed_ids,          \* CSVManager._failed_ids
    writes_since_flush,  \* CSVManager._writes_since_flush
    flushpc,             \* where _flush_to_disk stands: "idle", "writing", "written"
    flushret,            \* what resumes when the flush in progress returns
    running,             \* BatchScraper._running
    cancel_event,        \* BatchScraper._cancel_event
    semaphore,           \* BatchScraper._semaphore: capacity and free slots
    stats,               \* BatchScraper._stats
    runpc,               \* position of each run() task
    runconc,             \* the concurrency of the request that created the task
    pending,             \* run()'s local list of pending row indices
    item,                \* the _process_item task of each row
    cookies,             \* BatchScraper._cookies
    events,              \* history: requests handled and kills of the process
    signalled            \* history: the runs (by started_at) that cancel()
                         \* raised the cancellation event in

storeVars == <<df, completed_ids, failed_ids, writes_since_flush>>
flushVars == <<flushpc, flushret>>
orchVars == <<running, cancel_event, semaphore, stats, runpc, runconc, pending, item>>
histVars == <<events, signalled>>
vars == <<fs, storeVars, flushVars, orchVars, cookies, histVars>>

RowIdx == 1..MaxRows
RunIds == 1..MaxEvents

\* A _process_item task: where it stands ("wait" for a slot, "sleep",
\* "fetch1", "backoff", "fetch2", "record" inside write_success or
\* write_failure, "done"), and as history the number of calls
\* of _scrape_single, what each call intercepted, how the task ended,
\* whether it got its slot with the cancellation event already set, and
\* whether its row was Pending when the task was created.  For the call of
\* _scrape_single under way: the cookies its browser context was given
\* (jar) and, as history, self._cookies when it was called (disp).
NoTask == [pc |-> "none", fetches |-> 0, p1 |-> "-", p2 |-> "-",
           res |-> "-", late |-> FALSE, fresh |-> FALSE,
           disp |-> NoJar, jar |-> NoJar]
NoRet == [k |-> "none", id |-> 0]
OneStats == [started_at |-> 0, completed |-> 1, failed |-> 0, token_errors |-> 0]
ZeroStats == [started_at |-> 0, completed |-> 0, failed |-> 0, token_errors |-> 0]
Semaphore(n) == [cap |-> n, value |-> n]

\* --------------------------------------------------------- CSVManager (pure)
\* _extract_id_from_url: the model keeps the URL column as the id it yields.
ExtractIdFromUrl(url) == url

\* load(): the loop of lines 29-35 over the rows just read.
LoadCompleted(rows) ==
    {rows[r].item : r \in {x \in DOMAIN rows : rows[x].item \notin {"", FAILED}}}
LoadFailed(rows) ==
    {ExtractIdFromUrl(rows[r].url) : r \in {x \in DOMAIN rows : rows[x].item = FAILED}}

\* get_pending_items(): the test of line 48 for one row ...
IsPendingItem(rows, r, cids, fids) ==
    /\ ExtractIdFromUrl(rows[r].url) \notin cids
    /\ ExtractIdFromUrl(rows[r].url) \notin fids

\* ... and the list it builds, in row order.
RECURSIVE PendingFrom(_, _, _, _)
PendingFrom(rows, r, cids, fids) ==
    IF r > Len(rows) THEN <<>>
    ELSE (IF IsPendingItem(rows, r, cids, fids) THEN <<r>> ELSE <<>>)
             \o PendingFrom(rows, r + 1, cids, fids)
GetPendingItems(rows, cids, fids) == PendingFrom(rows, 1, cids, fids)

Range(s) == {s[k] : k \in DOMAIN s}

\* reason[:200]
WholeText(text) == text
Truncate200(text) == IF Len(text) <= 200 THEN text ELSE SubSeq(text, 1, 200)

\* write_success / write_failure: the row they leave (the URL column is not
\* among the columns assigned).
SuccessRow(row, item_id) == [row EXCEPT !.item = item_id, !.title = RecordTitle]
ReasonOnlyRow(row, reason) == [row EXCEPT !.title = Truncate200(reason)]
FailureRow(row, reason) == [row EXCEPT !.item = FAILED, !.title = Truncate200(reason)]

\* The comparison of lines 69 and 80.
FlushOnlyAbove(w) == w > SAVE_INTERVAL_ROWS
NeedsFlush(w) == w >= SAVE_INTERVAL_ROWS

\* os.replace(src, dst)
NoReplace(files, src, dst) == files
Replace(files, src, dst) ==
    IF src = dst THEN files ELSE [files EXCEPT ![dst] = files[src], ![src] = NoFile]

\* ------------------------------------------------------ BatchScraper (pure)
Payloads == {"none", "token", "ok"}

Raise(kind, text) == [ok |-> FALSE, kind |-> kind, msg |-> text]
Return == [ok |-> TRUE, kind |-> "ok", msg |-> ""]

\* GoofishScraper.parse_json(api_json, item_id), line 234: the class in
\* scraping.py defines _parse_json only, so the attribute lookup raises.
ParseJson == Raise("AttributeError", ParseJsonMsg)

\* _scrape_single from line 221 on, by what was intercepted: nothing, a
\* payload whose ret carries a token keyword, any other payload.
ScrapeSingle(item_id, payload) ==
    IF payload = "none" THEN Raise("InterceptTimeout", InterceptMsg(item_id))
    ELSE IF payload = "token" THEN Raise("TokenExpired", TokenMsg)
    ELSE ParseJson

\* The test of line 164.
NeverTokenError(text) == FALSE
IsTokenError(text) == UpperContainsTOKEN(text) \/ UpperContainsSESSION_EXPIRED(text)

\* self._cancel_event.clear() (batch_scraper.py:96).
KeepEvent(event) == event
Clear(event) == FALSE

\* The test of line 92.
NeverRunning == FALSE
AlreadyRunning == running

AlwaysIdle == TRUE
Idle == flushpc = "idle"

\* self._stats[key] += 1 (batch_scraper.py:152, 165, 174, 179).
NotCounted(st, key) == st
Counted(st, key) == [st EXCEPT ![key] = @ + 1]

\* CSVManager.stats (csv_manager.py:95-105).
CsvStats ==
    LET total == IF df.kind = "none" THEN 0 ELSE Len(df.rows)
    IN  [total |-> total,
         completed |-> Cardinality(completed_ids),
         failed |-> Cardinality(failed_ids),
         pending |-> total - Cardinality(completed_ids) - Cardinality(failed_ids)]

\* BatchScraper.status (batch_scraper.py:58-73): {**csv_stats, **self._stats,
\* "running": ...}; a key of self._stats replaces the same key of csv_stats.
\* The two figures derived from the clock are left out.
Status ==
    [total |-> CsvStats.total,
     completed |-> stats.completed,
     failed |-> stats.failed,
     pending |-> CsvStats.pending,
     started_at |-> stats.started_at,
     token_errors |-> stats.token_errors,
     running |-> running]
ItemId(r) == ExtractIdFromUrl(df.rows[r].url)
Holding(r) == item[r].pc \in {"sleep", "fetch1", "backoff", "fetch2", "record"}
KeepSlot(sem) == sem
Release(sem) == [sem EXCEPT !.value = @ + 1]

\* ------------------------------------------------------------------- Init
Init ==
    /\ \E f \in {TableFile(t) : t \in InitialTables} \cup {NoFile} :
           fs = [p \in Paths |-> IF p = CsvPath THEN f ELSE NoFile]
    /\ df = NoDf
    /\ completed_ids = {}
    /\ failed_ids = {}
    /\ writes_since_flush = 0
    /\ flushpc = "idle"
    /\ flushret = NoRet
    /\ running = FALSE
    /\ cancel_event = FALSE
    /\ semaphore = Semaphore(DEFAULT_CONCURRENCY)
    /\ stats = ZeroStats
    /\ runpc = [q \in RunIds |-> "none"]
    /\ runconc = [q \in RunIds |-> 0]
    /\ pending = <<>>
    /\ item = [r \in RowIdx |-> NoTask]
    /\ cookies = PlaywrightCookies(CookieDict(ConfigSession))
    /\ events = 0
    /\ signalled = {}

\* ------------------------------------------------- what follows a store call
\* The code that runs after a store call returns, in the caller:
\*   "completed" / "failed": lines 152 / 179, then the task leaves
\*       "async with self._semaphore" and ends;
\*   "final": lines 129-132 and the finally of line 139;
\*   "fatal": the raise of line 137 and the finally of line 139;
\*   "cancel": line 240.
Continue(ret, it) ==
    CASE ret.k = "completed" ->
            /\ stats' = Counted(stats, "completed")
            /\ semaphore' = Release(semaphore)
            /\ item' = [it EXCEPT ![ret.id].pc = "done", ![ret.id].res = "completed"]
            /\ UNCHANGED <<running, runpc, runconc>>
      [] ret.k = "failed" ->
            /\ stats' = Counted(stats, "failed")
            /\ semaphore' = Release(semaphore)
            /\ item' = [it EXCEPT ![ret.id].pc = "done", ![ret.id].res = "failed"]
            /\ UNCHANGED <<running, runpc, runconc>>
      [] ret.k = "final" ->
            /\ running' = FALSE
            /\ runpc' = [runpc EXCEPT ![ret.id] = "done"]
            /\ runconc' = [runconc EXCEPT ![ret.id] = 0]
            /\ item' = it
            /\ UNCHANGED <<stats, semaphore>>
      [] ret.k = "fatal" ->
            /\ running' = FALSE
            /\ runpc' = [runpc EXCEPT ![ret.id] = "fatal"]
            /\ runconc' = [runconc EXCEPT ![ret.id] = 0]
            /\ item' = it
            /\ UNCHANGED <<stats, semaphore>>
      [] OTHER ->
            /\ item' = it
            /\ UNCHANGED <<stats, semaphore, running, runpc, runconc>>

\* _flush_to_disk, entered with the table in memory: to_csv opens the
\* temporary file (line 86); the caller resumes when the flush has returned.
FlushBegin(ret, it) ==
    /\ fs' = [fs EXCEPT ![TmpPath] = Truncated]
    /\ flushpc' = "writing"
    /\ flushret' = ret
    /\ item' = it
    /\ UNCHANGED <<stats, semaphore, running, runpc, runconc>>

\* flush() of lines 90-93 called where self._df may still be None: then
\* self._df.to_csv raises AttributeError before anything is written and the
\* caller's code after the call is skipped.
FlushOrRaise(ret, raised, it) ==
    IF df.kind = "none"
    THEN /\ Continue(raised, it)
         /\ UNCHANGED <<fs, flushVars>>
    ELSE FlushBegin(ret, it)

\* to_csv has written the whole table to the temporary file (line 86).
FlushWriteStale ==
    /\ UNCHANGED cookies
    /\ flushpc = "writing"
    /\ fs' = [fs EXCEPT ![TmpPath] = fs[CsvPath]]
    /\ flushpc' = "written"
    /\ UNCHANGED <<storeVars, flushret, orchVars, histVars>>
FlushWrite ==
    /\ UNCHANGED cookies
    /\ flushpc = "writing"
    /\ fs' = [fs EXCEPT ![TmpPath] = TableFile(df.rows)]
    /\ flushpc' = "written"
    /\ UNCHANGED <<storeVars, flushret, orchVars, histVars>>

\* os.replace and the reset of the counter (lines 87-88); the caller resumes.
FlushReplace ==
    /\ UNCHANGED cookies
    /\ flushpc = "written"
    /\ fs' = Replace(fs, TmpPath, CsvPath)
    /\ writes_since_flush' = 0
    /\ flushpc' = "idle"
    /\ flushret' = NoRet
    /\ Continue(flushret, item)
    /\ UNCHANGED <<df, completed_ids, failed_ids, cancel_event, pending, histVars>>

\* write_success (lines 52-70) / write_failure (lines 72-81) for row r, then
\* the caller's continuation ret.
WriteSuccess(r, item_id, ret, it) ==
    /\ df' = [df EXCEPT !.rows[r] = SuccessRow(@, item_id)]
    /\ completed_ids' = completed_ids \cup {item_id}
    /\ UNCHANGED failed_ids
    /\ IF NeedsFlush(writes_since_flush + 1)
       THEN /\ writes_since_flush' = writes_since_flush + 1
            /\ FlushBegin(ret, it)
       ELSE /\ writes_since_flush' = writes_since_flush + 1
            /\ Continue(ret, it)
            /\ UNCHANGED <<fs, flushVars>>

WriteFailure(r, item_id, reason, ret, it) ==
    /\ df' = [df EXCEPT !.rows[r] = FailureRow(@, reason)]
    /\ failed_ids' = failed_ids \cup {item_id}
    /\ UNCHANGED completed_ids
    /\ IF NeedsFlush(writes_since_flush + 1)
       THEN /\ writes_since_flush' = writes_since_flush + 1
            /\ FlushBegin(ret, it)
       ELSE /\ writes_since_flush' = writes_since_flush + 1
            /\ Continue(ret, it)
            /\ UNCHANGED <<fs, flushVars>>

\* ------------------------------------------------------ the control surface
FreeRun == {q \in RunIds : runpc[q] = "none"}
NextRun == CHOOSE q \in FreeRun : \A p \in FreeRun : q <= p

\* scrape_bulk_start (main.py:81-97) with concurrency n.  The run is only
\* scheduled here (create_task): it sets _running when it first executes.
StartRequest(n) ==
    /\ UNCHANGED cookies
    /\ Idle
    /\ events < MaxEvents
    /\ events' = events + 1
    /\ UNCHANGED signalled
    /\ IF running
       THEN UNCHANGED <<fs, storeVars, flushVars, orchVars>>
       ELSE /\ semaphore' = Semaphore(n)
            /\ runpc' = [runpc EXCEPT ![NextRun] = "created"]
            /\ runconc' = [runconc EXCEPT ![NextRun] = n]
            /\ UNCHANGED <<fs, storeVars, flushVars, running, cancel_event, stats,
                           pending, item>>

\* scrape_bulk_cancel (main.py:108-114) and BatchScraper.cancel (236-240).
CancelRequest ==
    /\ UNCHANGED cookies
    /\ Idle
    /\ events < MaxEvents
    /\ events' = events + 1
    /\ IF ~running
       THEN UNCHANGED <<fs, storeVars, flushVars, orchVars, signalled>>
       ELSE /\ cancel_event' = TRUE
            /\ signalled' = signalled \cup {stats.started_at}
            /\ FlushOrRaise([k |-> "cancel", id |-> 0], [k |-> "raised", id |-> 0], item)
            /\ UNCHANGED <<storeVars, pending>>

\* ----------------------------------------------------------------- run()
\* The first segment of one _process_item task: the cancellation test
\* (143-144), then "async with self._semaphore" (146), which takes a free
\* slot at once and goes on to the pacing delay (147), and otherwise queues
\* the task among the semaphore's waiters.
ItemStart(r, sem, it) ==
    LET new == [NoTask EXCEPT !.fresh = (df.rows[r].item = "")]
    IN  IF cancel_event
        THEN [sem |-> sem,
              item |-> [it EXCEPT ![r] = [new EXCEPT !.pc = "done", !.res = "skipped"]]]
        ELSE IF sem.value > 0
        THEN [sem |-> [sem EXCEPT !.value = @ - 1],
              item |-> [it EXCEPT ![r] = [new EXCEPT !.pc = "sleep"]]]
        ELSE [sem |-> sem, item |-> [it EXCEPT ![r] = [new EXCEPT !.pc = "wait"]]]

\* The tasks of lines 115-120.  create_task queues them one after the other
\* and the event loop runs its queue in order, so their first segments run
\* back to back, in the order of the pending list, before anything else.
RECURSIVE StartTasks(_, _, _, _)
StartTasks(pend, k, sem, it) ==
    IF k > Len(pend) THEN [sem |-> sem, item |-> it]
    ELSE LET st == ItemStart(pend[k], sem, it)
         IN  StartTasks(pend, k + 1, st.sem, st.item)

\* The run() tasks start in the order their requests created them.
FirstCreated(q) == runpc[q] = "created" /\ \A p \in RunIds : p < q => runpc[p] # "created"

\* run() up to its first suspension: the guard (92-93), the reset (95-100),
\* load and get_pending_items (103-104), which do not suspend, and then
\* either the wait for Playwright (107) or, when load raised, the handler of
\* lines 134-139.  In the handler the flush of line 136 runs first: with a
\* table in memory it writes it and line 137 re-raises the error of load
\* ("fatal"); with self._df still None it raises AttributeError itself and
\* line 137 is not reached, so run() ends with that error ("flusherror").
RunBegin(q) ==
    /\ UNCHANGED cookies
    /\ Idle
    /\ FirstCreated(q)
    /\ UNCHANGED <<semaphore, writes_since_flush, item, histVars>>
    /\ IF AlreadyRunning
       THEN /\ runpc' = [runpc EXCEPT ![q] = "rejected"]
            /\ runconc' = [runconc EXCEPT ![q] = 0]
            /\ UNCHANGED <<fs, df, completed_ids, failed_ids, flushVars, running,
                           cancel_event, stats, pending>>
       ELSE /\ cancel_event' = Clear(cancel_event)
            /\ stats' = [ZeroStats EXCEPT !.started_at = q]
            /\ IF fs[CsvPath].kind = "table"
               THEN /\ df' = TableFile(fs[CsvPath].rows)
                    /\ completed_ids' = completed_ids \cup LoadCompleted(fs[CsvPath].rows)
                    /\ failed_ids' = failed_ids \cup LoadFailed(fs[CsvPath].rows)
                    /\ pending' = GetPendingItems(fs[CsvPath].rows, completed_ids',
                                                  failed_ids')
                    /\ running' = TRUE
                    /\ runpc' = [runpc EXCEPT ![q] = "launch"]
                    /\ UNCHANGED <<fs, flushVars, runconc>>
               ELSE /\ UNCHANGED <<df, completed_ids, failed_ids, pending>>
                    /\ IF df.kind = "none"
                       THEN /\ running' = FALSE
                            /\ runpc' = [runpc EXCEPT ![q] = "flusherror"]
                            /\ runconc' = [runconc EXCEPT ![q] = 0]
                            /\ UNCHANGED <<fs, flushVars>>
                       ELSE /\ running' = TRUE
                            /\ fs' = [fs EXCEPT ![TmpPath] = Truncated]
                            /\ flushpc' = "writing"
                            /\ flushret' = [k |-> "fatal", id |-> q]
                            /\ UNCHANGED <<runpc, runconc>>

\* Playwright and the browser are up (107-112): the tasks are created
\* (115-120) and run() waits in gather (123).
RunLaunch(q) ==
    /\ UNCHANGED cookies
    /\ Idle
    /\ runpc[q] = "launch"
    /\ LET st == StartTasks(pending, 1, semaphore, [r \in RowIdx |-> NoTask])
       IN  /\ item' = st.item
           /\ semaphore' = st.sem
    /\ runpc' = [runpc EXCEPT ![q] = "gather"]
    /\ pending' = <<>>
    /\ UNCHANGED <<fs, storeVars, flushVars, running, cancel_event, stats, runconc,
                   histVars>>

\* Playwright or the browser launch raises: the handler of lines 134-139.
RunLaunchFail(q) ==
    /\ UNCHANGED cookies
    /\ Idle
    /\ runpc[q] = "launch"
    /\ FlushBegin([k |-> "fatal", id |-> q], item)
    /\ UNCHANGED <<storeVars, cancel_event, pending, histVars>>

\* gather returns once every task has ended (123); run() then waits for
\* browser.close() (125).
RunGathered(q) ==
    /\ UNCHANGED cookies
    /\ Idle
    /\ runpc[q] = "gather"
    /\ \A r \in RowIdx : item[r].pc \in {"none", "done"}
    /\ runpc' = [runpc EXCEPT ![q] = "closing"]
    /\ item' = [r \in RowIdx |-> NoTask]
    /\ UNCHANGED <<fs, storeVars, flushVars, running, cancel_event, semaphore, stats,
                   runconc, pending, histVars>>

\* The final flush (128) and the end of run().
RunFinish(q) ==
    /\ UNCHANGED cookies
    /\ Idle
    /\ runpc[q] = "closing"
    /\ FlushBegin([k |-> "final", id |-> q], item)
    /\ UNCHANGED <<storeVars, cancel_event, pending, histVars>>

\* ------------------------------------------------------- _process_item(r)
\* The first waiter (asyncio.Semaphore wakes its waiters in the order they
\* queued, here the row order) gets the slot a finished task released, and
\* sleeps (147).  The cancellation event is not read again here.
ItemAcquire(r) ==
    /\ UNCHANGED cookies
    /\ Idle
    /\ item[r].pc = "wait"
    /\ \A x \in RowIdx : x < r => item[x].pc # "wait"
    /\ semaphore.value > 0
    /\ semaphore' = [semaphore EXCEPT !.value = @ - 1]
    /\ item' = [item EXCEPT ![r].pc = "sleep", ![r].late = cancel_event]
    /\ UNCHANGED <<fs, storeVars, flushVars, running, cancel_event, stats, runpc,
                   runconc, pending, histVars>>

\* The pacing delay is over: _scrape_single is called (150).
ItemFetch(r) ==
    /\ UNCHANGED cookies
    /\ Idle
    /\ item[r].pc = "sleep"
    /\ item' = [item EXCEPT ![r].pc = "fetch1", ![r].fetches = @ + 1,
                             ![r].disp = cookies]
    /\ UNCHANGED <<fs, storeVars, flushVars, running, cancel_event, semaphore, stats,
                   runpc, runconc, pending, histVars>>

\* _scrape_single, first or second call: browser.new_context has returned
\* (192-195) and the context is given self._cookies as it is now (196).
ItemContext(r) ==
    /\ Idle
    /\ item[r].pc \in {"fetch1", "fetch2"}
    /\ item[r].jar = NoJar
    /\ item' = [item EXCEPT ![r].jar = cookies]
    /\ UNCHANGED <<fs, storeVars, flushVars, running, cancel_event, semaphore, stats,
                   runpc, runconc, pending, cookies, histVars>>

\* The first _scrape_single returns or raises (150-168).
ItemFetchReturn(r, payload) ==
    /\ UNCHANGED cookies
    /\ Idle
    /\ item[r].pc = "fetch1"
    /\ item[r].jar # NoJar
    /\ LET got == ScrapeSingle(ItemId(r), payload)
           it == [item EXCEPT ![r].p1 = payload, ![r].disp = NoJar, ![r].jar = NoJar]
           rec == [it EXCEPT ![r].pc = "record"]
       IN  IF got.ok
           THEN /\ WriteSuccess(r, ItemId(r), [k |-> "completed", id |-> r], rec)
                /\ UNCHANGED <<cancel_event, pending, histVars>>
           ELSE IF IsTokenError(got.msg)
           THEN /\ stats' = Counted(stats, "token_errors")
                /\ semaphore' = Release(semaphore)
                /\ item' = [it EXCEPT ![r].pc = "done", ![r].res = "token"]
                /\ UNCHANGED <<fs, storeVars, flushVars, running, cancel_event, runpc,
                               runconc, pending, histVars>>
           ELSE /\ item' = [it EXCEPT ![r].pc = "backoff"]
                /\ UNCHANGED <<fs, storeVars, flushVars, running, cancel_event,
                               semaphore, stats, runpc, runconc, pending, histVars>>

\* The backoff is over: _scrape_single is called again (171-172).
ItemRetry(r) ==
    /\ UNCHANGED cookies
    /\ Idle
    /\ item[r].pc = "backoff"
    /\ item' = [item EXCEPT ![r].pc = "fetch2", ![r].fetches = @ + 1,
                             ![r].disp = cookies]
    /\ UNCHANGED <<fs, storeVars, flushVars, running, cancel_event, semaphore, stats,
                   runpc, runconc, pending, histVars>>

\* The retry returns or raises (172-182).
ItemRetryReturn(r, payload) ==
    /\ UNCHANGED cookies
    /\ Idle
    /\ item[r].pc = "fetch2"
    /\ item[r].jar # NoJar
    /\ LET got == ScrapeSingle(ItemId(r), payload)
           it == [item EXCEPT ![r].p2 = payload, ![r].disp = NoJar, ![r].jar = NoJar,
                              ![r].pc = "record"]
       IN  IF got.ok
           THEN WriteSuccess(r, ItemId(r), [k |-> "completed", id |-> r], it)
           ELSE WriteFailure(r, ItemId(r), Truncate200(got.msg),
                             [k |-> "failed", id |-> r], it)
    /\ UNCHANGED <<cancel_event, pending, histVars>>

\* update_cookies (main.py:118-125, batch_scraper.py:75-88): self._cookies
\* is bound to a new list built from the dict received.
UpdateCookies(session) ==
    /\ Idle
    /\ events < MaxEvents
    /\ events' = events + 1
    /\ cookies' = PlaywrightCookies(CookieDict(session))
    /\ UNCHANGED <<fs, storeVars, flushVars, orchVars, signalled>>

\* ------------------------------------------------------------ the process
\* The process is killed, at any point (also inside a flush), and started
\* again: memory is lost, the files stay as they are.
Crash ==
    /\ events < MaxEvents
    /\ events' = events + 1
    /\ df' = NoDf
    /\ completed_ids' = {}
    /\ failed_ids' = {}
    /\ writes_since_flush' = 0
    /\ flushpc' = "idle"
    /\ flushret' = NoRet
    /\ running' = FALSE
    /\ cancel_event' = FALSE
    /\ semaphore' = Semaphore(DEFAULT_CONCURRENCY)
    /\ stats' = ZeroStats
    /\ runpc' = [q \in RunIds |-> IF runpc[q] = "none" THEN "none" ELSE "dead"]
    /\ pending' = <<>>
    /\ item' = [r \in RowIdx |-> NoTask]
    /\ runconc' = [q \in RunIds |-> 0]
    /\ cookies' = PlaywrightCookies(CookieDict(ConfigSession))
    /\ UNCHANGED <<fs, signalled>>

Next ==
    \/ \E n \in 1..MaxConc : StartRequest(n)
    \/ CancelRequest
    \/ \E q \in RunIds : RunBegin(q)
    \/ \E q \in RunIds : RunLaunch(q)
    \/ \E q \in RunIds : RunLaunchFail(q)
    \/ \E q \in RunIds : RunGathered(q)
    \/ \E q \in RunIds : RunFinish(q)
    \/ \E r \in RowIdx : ItemAcquire(r)
    \/ \E r \in RowIdx : ItemFetch(r)
    \/ \E r \in RowIdx : ItemContext(r)
    \/ \E r \in RowIdx, payload \in Payloads : ItemFetchReturn(r, payload)
    \/ \E r \in RowIdx : ItemRetry(r)
    \/ \E r \in RowIdx, payload \in Payloads : ItemRetryReturn(r, payload)
    \/ FlushWrite
    \/ FlushReplace
    \/ \E session \in Sessions : UpdateCookies(session)
    \/ Crash

Spec == Init /\ [][Next]_vars

\* The steps the event loop takes by itself: it runs every task that is
\* ready, and every wait of the program (Playwright, the pacing delay, a
\* fetch, the backoff, the file system) is taken to return.  Requests and
\* kills of the process are not forced to happen.
Progress ==
    \/ \E q \in RunIds : RunBegin(q) \/ RunLaunch(q) \/ RunLaunchFail(q)
    \/ \E q \in RunIds : RunGathered(q) \/ RunFinish(q)
    \/ \E r \in RowIdx : ItemAcquire(r) \/ ItemFetch(r) \/ ItemContext(r) \/ ItemRetry(r)
    \/ \E r \in RowIdx, payload \in Payloads :
           ItemFetchReturn(r, payload) \/ ItemRetryReturn(r, payload)
    \/ FlushWrite
    \/ FlushReplace
FairSpec == Spec /\ WF_vars(Progress)

TypeOK ==
    /\ fs[CsvPath].kind \in {"table", "nofile"}
    /\ writes_since_flush \in 0..SAVE_INTERVAL_ROWS
    /\ semaphore.value \in 0..semaphore.cap

\* =================================================================== claims
Holders == {r \in RowIdx : Holding(r)}
Fetching == {r \in RowIdx : item[r].pc \in {"fetch1", "fetch2"}}
Executing == {q \in RunIds : runpc[q] \in {"launch", "gather", "closing"}}
Tasks == {r \in RowIdx : item[r].pc # "none"}
RowOf(r) == df.rows[r]

Loaded == df.kind = "table"
Settled(row) == row.item # ""
\* Row r was written by its task in the run under way.
Wrote(r) == \/ item[r].pc = "done" /\ item[r].res \in {"completed", "failed"}
            \/ flushret.k \in {"completed", "failed"} /\ flushret.id = r

\* What the first / second call of _scrape_single for row r raised.
Kind1(r) == ScrapeSingle(ItemId(r), item[r].p1).kind
Kind2(r) == ScrapeSingle(ItemId(r), item[r].p2).kind

\* The slots in use never exceed the capacity of the semaphore in place.
SlotsWithinCapacity ==
    /\ Cardinality(Holders) + semaphore.value = semaphore.cap \/ Executing = {}
    /\ Executing # {} => Cardinality(Holders) <= semaphore.cap

\* C1: while a run that was started with concurrency N executes, at most N
\* items hold a slot (pacing delay, fetch, backoff, retry), and so at most N
\* fetches are in flight.
C1_ConcurrencyBound ==
    \A q \in Executing :
        /\ Cardinality(Holders) <= runconc[q]
        /\ Cardinality(Fetching) <= runconc[q]

\* C2: an item that had no slot yet when the cancellation signal was raised
\* never calls the fetcher in that run: it is skipped and its row is not
\* written, so it stays Pending.
C2_CancelStopsDispatch ==
    \A r \in Tasks :
        item[r].late => /\ item[r].fetches = 0
                        /\ item[r].pc = "done" => item[r].res = "skipped"
                        /\ ~Wrote(r)

Gathering == \E q \in RunIds : runpc[q] = "gather"
Ended(res) == {r \in RowIdx : item[r].pc = "done" /\ item[r].res = res}

\* C3: the fetcher is called at most twice per item, the second time only
\* after the first call failed with a non-token error; a retry that returns
\* makes the row Completed and counts one completed, a retry that fails makes
\* the row Failed and counts one failed.
C3_ExactlyOneRetry ==
    /\ \A r \in Tasks :
          /\ item[r].fetches <= 2
          /\ item[r].fetches = 2 =>
                /\ item[r].p1 # "-"
                /\ ~ScrapeSingle(ItemId(r), item[r].p1).ok
                /\ Kind1(r) # "TokenExpired"
          /\ (item[r].pc = "done" /\ item[r].fetches = 2) =>
                IF ScrapeSingle(ItemId(r), item[r].p2).ok
                THEN item[r].res = "completed" /\ RowOf(r) = SuccessRow(RowOf(r), ItemId(r))
                ELSE item[r].res = "failed" /\ RowOf(r).item = FAILED
    /\ Gathering => /\ stats.completed = Cardinality(Ended("completed"))
                    /\ stats.failed = Cardinality(Ended("failed"))
                    /\ \A r \in Ended("failed") : item[r].fetches = 2

\* C3 witness: an item was retried, the retry failed too, and the row is
\* Failed and counted.
C3_Witness ==
    \E r \in Tasks :
        /\ item[r].pc = "done" /\ item[r].fetches = 2 /\ item[r].res = "failed"
        /\ RowOf(r).item = FAILED
        /\ stats.failed >= 1

\* C4: when the first fetch fails with TokenExpired the fetcher is not
\* called again for the item, the row stays as it was loaded (Pending), and
\* the step that handles the failure adds one to token_errors and changes
\* neither the other counters nor anything of the store or the files.
C4_TokenSkipStep ==
    \A r \in RowIdx :
        (item[r].pc = "fetch1" /\ item'[r].p1 = "token") =>
            /\ item'[r].pc = "done" /\ item'[r].res = "token"
            /\ stats' = [stats EXCEPT !.token_errors = @ + 1]
            /\ UNCHANGED <<fs, storeVars, flushVars>>
C4_TokenSkipState ==
    \A r \in Tasks :
        item[r].p1 = "token" =>
            /\ item[r].fetches = 1
            /\ item[r].pc = "done" /\ item[r].res = "token"
            /\ ~Wrote(r)
            /\ RowOf(r) = fs[CsvPath].rows[r]
C4_TokenSkip == [][C4_TokenSkipStep]_vars /\ []C4_TokenSkipState

\* C4 witness: a first fetch failed with TokenExpired and the item is done.
C4_Witness ==
    \E r \in Tasks :
        /\ item[r].p1 = "token" /\ item[r].pc = "done"
        /\ stats.token_errors = 1
        /\ RowOf(r).item = ""

\* C5: a row is marked Failed by a run only if none of the item's fetches in
\* that run failed with TokenExpired.
C5_TokenNeverFailsRow ==
    \A r \in Ended("failed") :
        RowOf(r).item = FAILED => Kind1(r) # "TokenExpired" /\ Kind2(r) # "TokenExpired"

\* C6: only a TokenExpired failure takes the token-skip path; any other
\* first failure is retried and ends Completed or Failed.
C6_OnlyTokenExpiredSkips ==
    \A r \in Tasks :
        /\ item[r].res = "token" => Kind1(r) = "TokenExpired"
        /\ (item[r].pc = "done" /\ item[r].p1 # "-" /\ Kind1(r) # "TokenExpired") =>
               item[r].res \in {"completed", "failed"}

\* C7: a row that is Completed or Failed in the table a run loads is not in
\* the run's pending work, gets no task and no fetch, and is not rewritten
\* by that run.
C7_IdempotentResume ==
    /\ \A q \in RunIds : runpc[q] = "launch" =>
          \A k \in DOMAIN pending : ~Settled(RowOf(pending[k]))
    /\ \A r \in Tasks : Settled(RowOf(r)) => Wrote(r)
    /\ \A r \in RowIdx : (Loaded /\ Settled(fs[CsvPath].rows[r])) =>
          RowOf(r) = fs[CsvPath].rows[r]

\* C11: when every row of the table was Pending at load and every item of
\* the run has ended Completed, Failed or token-skipped, the status reports
\* completed, failed and token_errors as the numbers of items that ended so,
\* pending as the number of token-skipped items and total as the row count.
AllEnded ==
    /\ Gathering /\ Idle
    /\ Tasks = RowIdx
    /\ \A r \in RowIdx : /\ item[r].fresh
                          /\ item[r].pc = "done"
                          /\ item[r].res \in {"completed", "failed", "token"}
C11_StatsCorrect ==
    AllEnded =>
        /\ Status.completed = Cardinality(Ended("completed"))
        /\ Status.failed = Cardinality(Ended("failed"))
        /\ Status.token_errors = Cardinality(Ended("token"))
        /\ Status.pending = Cardinality(Ended("token"))
        /\ Status.total = MaxRows

\* C12: the store's stats describe the table in memory: total is the row
\* count, completed the number of rows with a success identifier, failed
\* the number of rows with the Failed sentinel, pending the number of rows
\* with an empty identifier, and pending is never negative.
IsCompletedRow(row) == row.item \notin {"", FAILED}
IsFailedRow(row) == row.item = FAILED
IsPendingRow(row) == row.item = ""
CompletedRows == {r \in DOMAIN df.rows : IsCompletedRow(df.rows[r])}
FailedRows == {r \in DOMAIN df.rows : IsFailedRow(df.rows[r])}
PendingRows == {r \in DOMAIN df.rows : IsPendingRow(df.rows[r])}
C12_StatsSnapshot ==
    (Idle /\ Loaded) =>
        /\ CsvStats.total = Len(df.rows)
        /\ CsvStats.completed = Cardinality(CompletedRows)
        /\ CsvStats.failed = Cardinality(FailedRows)
        /\ CsvStats.pending = Cardinality(PendingRows)
        /\ CsvStats.pending >= 0

\* C13: an item that fails does not end the run: run() leaves the gather
\* only when every task has ended, and in a run that was not cancelled every
\* item that was pending at start has then ended in exactly one of
\* Completed, Failed and token-skip, with completed + failed + token_errors
\* equal to the number of items that were pending at start.
Outcomes == {"completed", "failed", "token"}
C13_GatherStep ==
    \A q \in RunIds :
        (runpc[q] = "gather" /\ runpc'[q] # "gather") =>
            /\ runpc'[q] \in {"closing", "dead"}
            /\ (runpc'[q] = "closing" /\ ~cancel_event) =>
                   /\ \A r \in Tasks : item[r].pc = "done" /\ item[r].res \in Outcomes
                   /\ stats.completed + stats.failed + stats.token_errors
                          = Cardinality(Tasks)
C13_OneOutcome ==
    (Gathering /\ ~cancel_event) =>
        /\ \A r \in Tasks : item[r].pc = "done" => item[r].res \in Outcomes
        /\ stats.completed + stats.failed + stats.token_errors
               = Cardinality({r \in Tasks : item[r].pc = "done"})
C13_FailuresDoNotAbort == [][C13_GatherStep]_vars /\ []C13_OneOutcome

\* C13 witness: one item has failed for good and another was token-skipped
\* in a run that was not cancelled, and both are counted.
C13_Witness ==
    /\ Gathering /\ ~cancel_event
    /\ Ended("failed") # {} /\ Ended("token") # {}
    /\ \A r \in RowIdx : item[r].pc = "done"
    /\ stats.failed + stats.token_errors = MaxRows

\* C14: a run ends normally only after all its tasks have ended and its
\* final flush has returned: at the step that clears the running flag the
\* checkpoint file holds the table in memory and the dirty-write counter is
\* zero; and whenever the flag is clear and a table is loaded, the file
\* holds that table.
C14_FinishStep ==
    \A q \in RunIds :
        (runpc[q] # "done" /\ runpc'[q] = "done") =>
            /\ runpc[q] = "closing"
            /\ \A r \in RowIdx : item[r].pc = "none"
            /\ df' = df
            /\ fs'[CsvPath] = TableFile(df.rows)
            /\ writes_since_flush' = 0
            /\ running /\ ~running'
C14_Durable ==
    (Loaded /\ ~running /\ Idle) =>
        /\ fs[CsvPath] = TableFile(df.rows)
        /\ writes_since_flush = 0
C14_FinalFlush == [][C14_FinishStep]_vars /\ []C14_Durable

\* C14 witness: a run that was cancelled has ended: the outcome recorded in
\* it is in the file and the other row is still Pending there.
C14_Witness ==
    /\ runpc[1] = "done" /\ ~running /\ cancel_event /\ Idle
    /\ stats.failed = 1
    /\ \E r \in RowIdx : fs[CsvPath].rows[r].item = FAILED /\ df.rows[r].item = FAILED
    /\ \E r \in RowIdx : fs[CsvPath].rows[r].item = ""

\* C15: a run whose load fails ends with the error of load, also when no
\* table was ever loaded: no run ends with an error raised by the flush
\* that the handler attempts.
C15_LoadFailurePropagates ==
    \A q \in RunIds : runpc[q] # "flusherror"

\* C16: a run() task that passes the guard goes through launch, gather and
\* closing to done, or ends with an error, and not otherwise; the running
\* flag is set exactly while such a run is under way; and, every wait
\* returning, the flag is eventually cleared, after which a start is
\* accepted again.
RunSteps ==
    {<<"none", "created">>, <<"created", "rejected">>, <<"created", "launch">>,
     <<"created", "flusherror">>, <<"created", "fatal">>, <<"launch", "gather">>,
     <<"launch", "fatal">>, <<"gather", "closing">>, <<"closing", "done">>}
C16_RunStep ==
    \A q \in RunIds :
        runpc'[q] # runpc[q] =>
            \/ <<runpc[q], runpc'[q]>> \in RunSteps
            \/ runpc'[q] = "dead"
C16_Flag ==
    /\ running => \E q \in RunIds : runpc[q] \in {"created", "launch", "gather", "closing"}
    /\ Executing # {} => running
C16_RunStateMachine ==
    /\ [][C16_RunStep]_vars
    /\ []C16_Flag
    /\ (running ~> ~running)

\* C16 witness: a second run was accepted after the first one had ended.
C16_Witness ==
    /\ runpc[1] \in {"done", "fatal"}
    /\ runpc[2] = "gather" /\ running

\* C17: cancel() changes nothing of the orchestrator and the store but the
\* cancellation event, which it sets; while its flush is under way nothing
\* else changes; and when it returns the event is set, the checkpoint file
\* holds the table in memory, no temporary file is left and the dirty-write
\* counter is zero.  The state it leaves is thus determined by the table,
\* the id sets and the orchestrator's fields, none of which it changes, so a
\* second cancel() leaves the state the first one left.
InCancel == flushpc # "idle" /\ flushret.k = "cancel"
Cancelled ==
    /\ cancel_event
    /\ fs = [p \in Paths |-> IF p = CsvPath THEN TableFile(df.rows) ELSE NoFile]
    /\ writes_since_flush = 0
    /\ flushret = NoRet
C17_CancelStep ==
    /\ (~InCancel /\ InCancel') =>
           /\ running /\ cancel_event'
           /\ UNCHANGED <<storeVars, running, semaphore, stats, runpc, runconc,
                          pending, item>>
           /\ fs'[CsvPath] = fs[CsvPath]
    /\ (InCancel /\ InCancel') =>
           /\ UNCHANGED <<storeVars, orchVars>>
           /\ fs'[CsvPath] = fs[CsvPath]
    /\ (InCancel /\ flushpc' = "idle" /\ running') =>
           /\ Cancelled'
           /\ UNCHANGED <<df, completed_ids, failed_ids, orchVars>>
    /\ (Cancelled /\ Idle /\ InCancel') =>
           /\ UNCHANGED <<storeVars, orchVars>>
           /\ fs'[CsvPath] = fs[CsvPath]
C17_CancelIdempotent == [][C17_CancelStep]_vars

\* C17 witness: a second cancel() of the same run is about to return (an
\* item got its slot after the first one), with the file already equal to
\* the table in memory.
C17_Witness ==
    /\ InCancel /\ flushpc = "written" /\ running
    /\ \E r \in RowIdx : item[r].late
    /\ fs[CsvPath] = TableFile(df.rows) /\ writes_since_flush = 0

\* C18: a call of _scrape_single gives its browser context the cookies
\* that were current when the call was made (whether that was before or
\* after an update), and these are the cookies of one session.
OneSession(jar) == \E session \in Sessions : jar = PlaywrightCookies(CookieDict(session))
C18_CredentialHotSwap ==
    \A r \in Fetching :
        item[r].jar # NoJar => /\ item[r].jar = item[r].disp
                               /\ OneSession(item[r].jar)

\* C19: the three run counters are zero when a run starts, do not decrease
\* while it runs, and at every moment of the gather each one is the number
\* of tasks of this run that have ended that way, however the tasks
\* interleave.
CountersOf(st) == <<st.completed, st.failed, st.token_errors>>
C19_CounterStep ==
    /\ (~running /\ running') => CountersOf(stats') = <<0, 0, 0>>
    /\ (running /\ running') => \A k \in 1..3 : CountersOf(stats')[k] >= CountersOf(stats)[k]
C19_Counted ==
    Gathering => CountersOf(stats) = <<Cardinality(Ended("completed")),
                                      Cardinality(Ended("failed")),
                                      Cardinality(Ended("token"))>>
C19_RunCounters == [][C19_CounterStep]_vars /\ []C19_Counted

\* C19 witness: two tasks that held their slots at the same time have ended
\* differently and each outcome is counted once.
C19_Witness ==
    /\ Gathering /\ semaphore.cap = 2 /\ semaphore.value = 2
    /\ CountersOf(stats) = <<0, 1, 1>>
    /\ \A r \in RowIdx : item[r].pc = "done" /\ ~item[r].late

\* C20: while one store operation is inside the exclusive section (its
\* flush is under way) no other operation of the store begins and no other
\* task runs: the table, the id sets and the orchestrator change only when
\* that operation returns; and the task inside the section is the one that
\* is recording its outcome, never one suspended on a slot, the pacing
\* delay, a fetch or the backoff.
Suspended == {"wait", "sleep", "fetch1", "backoff", "fetch2"}
Killed == df' = NoDf /\ \A q \in RunIds : runpc'[q] \in {"none", "dead"}
C20_SectionStep ==
    flushpc # "idle" =>
        \/ Killed
        \/ /\ UNCHANGED <<df, completed_ids, failed_ids, cancel_event, pending, cookies>>
           /\ flushpc' # "idle" => UNCHANGED <<storeVars, orchVars, flushret>>
C20_Holder ==
    /\ \A r \in RowIdx :
          item[r].pc = "record" <=>
              /\ flushpc # "idle"
              /\ flushret.k \in {"completed", "failed"} /\ flushret.id = r
    /\ flushpc # "idle" => flushret # NoRet
    /\ (flushpc # "idle" /\ flushret.k \in {"final", "fatal"}) =>
          runpc[flushret.id] \in {"created", "launch", "closing"}
C20_StoreSerialized == [][C20_SectionStep]_vars /\ []C20_Holder

\* C20 witness: cancel() is inside the section, in its flush, while one
\* task is suspended on its fetch and another waits for a slot.
C20_Witness ==
    /\ flushpc = "writing" /\ InCancel
    /\ \E r, x \in RowIdx : /\ item[r].pc \in {"fetch1", "fetch2"}
                             /\ item[x].pc = "wait"
    /\ \A r \in RowIdx : item[r].pc \in Suspended

\* C8: a start while a run is in progress is refused (409 by the handler,
\* "already running" by run()) and changes none of the counters,
\* started_at, the cancellation event, the table in memory and the running
\* flag; at most one run executes at a time.
C8_RefusedStartStep ==
    /\ (running /\ \E n \in 1..MaxConc : StartRequest(n)) =>
           UNCHANGED <<fs, storeVars, flushVars, orchVars>>
    /\ \A q \in RunIds :
           (running /\ runpc[q] = "created" /\ runpc'[q] \notin {"created", "dead"}) =>
               /\ runpc'[q] = "rejected"
               /\ UNCHANGED <<stats, cancel_event, running, df, completed_ids,
                              failed_ids, writes_since_flush, item, pending, fs>>
C8_OneRun ==
    /\ Cardinality(Executing) <= 1
    /\ Executing # {} => running
    /\ \A q \in Executing : stats.started_at = q
C8_SingleRun == [][C8_RefusedStartStep]_vars /\ []C8_OneRun

\* C8 witness: a run() task was refused while another run executes.
C8_Witness ==
    \E q \in RunIds : runpc[q] = "rejected" /\ running /\ Executing # {}

\* C9: the checkpoint file is at all times a complete table: it changes
\* only by the replace that ends a flush, to the table in memory that the
\* flush wrote to the temporary file before; neither the open, the write
\* of the temporary file nor a kill of the process at any step changes it.
C9_TargetStep ==
    fs'[CsvPath] # fs[CsvPath] =>
        /\ flushpc = "written" /\ flushpc' = "idle"
        /\ fs[TmpPath] = TableFile(df.rows)
        /\ fs'[CsvPath] = fs[TmpPath]
C9_TargetWhole ==
    /\ fs[CsvPath].kind # "truncated"
    /\ fs[CsvPath].kind = "table" => Len(fs[CsvPath].rows) = MaxRows
    /\ Loaded => fs[CsvPath].kind = "table"
C9_AtomicFlush == [][C9_TargetStep]_vars /\ []C9_TargetWhole

\* C9 witness: the process was killed between the write of the temporary
\* file and the replace: the temporary file holds the newer table, the
\* checkpoint file still holds the older, complete one.
C9_Witness ==
    /\ events > 0 /\ df = NoDf /\ runpc[1] = "dead"
    /\ fs[TmpPath].kind = "table" /\ fs[CsvPath].kind = "table"
    /\ fs[TmpPath] # fs[CsvPath]

\* C10: whenever no store operation is in progress, the dirty-write counter
\* is the number of rows that differ between the table in memory and the
\* checkpoint file, and it is below the threshold: a kill loses fewer than
\* SAVE_INTERVAL_ROWS recorded outcomes.
Unflushed == {r \in DOMAIN df.rows : df.rows[r] # fs[CsvPath].rows[r]}
C10_AutoFlushBound ==
    (Idle /\ Loaded) =>
        /\ writes_since_flush = Cardinality(Unflushed)
        /\ writes_since_flush < SAVE_INTERVAL_ROWS

\* C10 witness: SAVE_INTERVAL_ROWS outcomes were recorded in a run that is
\* still going, the last one flushed by itself, and the file has them all.
C10_Witness ==
    /\ Idle /\ Gathering
    /\ stats.failed = SAVE_INTERVAL_ROWS
    /\ writes_since_flush = 0
    /\ fs[CsvPath] = TableFile(df.rows)

\* C21: the pending work that run() gets right after load is exactly the
\* rows whose identifier column is empty (neither Completed nor Failed), in
\* ascending row order.  (get_pending_items assigns nothing: it is an
\* operator over the table and the id sets.)
Ascending(s) == \A i, j \in DOMAIN s : i < j => s[i] < s[j]
C21_PendingWork ==
    \A q \in RunIds :
        runpc[q] = "launch" =>
            /\ pending = GetPendingItems(df.rows, completed_ids, failed_ids)
            /\ Range(pending) = PendingRows
            /\ Ascending(pending)

\* C22: the number and the order of the rows of the table in memory never
\* change after load and no row's URL column ever changes; a step changes
\* at most one row, the row of the task that is recording its outcome, to
\* the Completed or the Failed form of that row; and the reason stored in a
\* Failed row has at most 200 characters.
Writers == {r \in RowIdx : item[r].pc \in {"fetch1", "fetch2"}}
C22_FrameStep ==
    (Loaded /\ Loaded') =>
        /\ Len(df'.rows) = Len(df.rows)
        /\ \A r \in DOMAIN df.rows : df'.rows[r].url = df.rows[r].url
        /\ \A r \in DOMAIN df.rows :
               df'.rows[r] # df.rows[r] =>
                   /\ r \in Writers
                   /\ \/ df'.rows[r] = SuccessRow(df.rows[r], ItemId(r))
                      \/ \E payload \in Payloads :
                             df'.rows[r] =
                                 FailureRow(df.rows[r], ScrapeSingle(ItemId(r), payload).msg)
                   /\ \A x \in DOMAIN df.rows : x # r => df'.rows[x] = df.rows[x]
C22_ReasonBounded ==
    /\ Loaded => \A r \in FailedRows : Len(df.rows[r].title) <= 200
    /\ \A p \in Paths : \A r \in DOMAIN fs[p].rows :
           IsFailedRow(fs[p].rows[r]) => Len(fs[p].rows[r].title) <= 200
\* The row write_success leaves, for any row of the table and any item id.
C22_SuccessRow ==
    Loaded => \A r \in DOMAIN df.rows : \A id \in Ids \cup {OtherItemId} :
                  /\ SuccessRow(df.rows[r], id).url = df.rows[r].url
                  /\ IsCompletedRow(SuccessRow(df.rows[r], id))
C22_TableFrame ==
    [][C22_FrameStep]_vars /\ []C22_ReasonBounded /\ []C22_SuccessRow

\* C22 witness: the item with the long id has failed for good: its row holds
\* the first 200 characters of an error text that is longer, under its own
\* URL, and the other row is as it was loaded.
C22_Witness ==
    /\ Gathering /\ Idle
    /\ \E r \in Ended("failed") :
           /\ ItemId(r) = LongId
           /\ Len(InterceptMsg(LongId)) > 200
           /\ df.rows[r] = Row(LongId, FAILED, SubSeq(InterceptMsg(LongId), 1, 200))
           /\ \A x \in RowIdx : x # r => df.rows[x] = fs[CsvPath].rows[x]

\* C23: a call of _scrape_single that intercepted a payload without a token
\* code returns a record: the task then records success, so it is in
\* write_success or has ended Completed, its row is Completed and the
\* completed counter is at least one.
C23_SuccessPath ==
    \A r \in Tasks :
        (item[r].p1 = "ok" \/ item[r].p2 = "ok") =>
            /\ ScrapeSingle(ItemId(r), "ok").ok
            /\ item[r].pc \in {"record", "done"}
            /\ IsCompletedRow(df.rows[r])
            /\ item[r].pc = "done" => (item[r].res = "completed" /\ stats.completed >= 1)

\* C24: at most one start request at a time has been answered "started"
\* without its run having begun; no run() task of a request answered
\* "started" is refused; and a run executes under the semaphore of its own
\* request.
Started == {q \in RunIds : runpc[q] = "created"}
C24_StartRace ==
    /\ Cardinality(Started) <= 1
    /\ \A q \in RunIds : runpc[q] # "rejected"
    /\ \A q \in Started \cup Executing : semaphore.cap = runconc[q]

\* C25: no item is being fetched whose id is already recorded as Completed
\* or Failed, and of two rows whose URLs carry the same item id at most one
\* is fetched in a run.
C25_DedupById ==
    /\ \A r \in Fetching : ItemId(r) \notin completed_ids \cup failed_ids
    /\ \A r, x \in Tasks :
           (r # x /\ ItemId(r) = ItemId(x)) => (item[r].fetches = 0 \/ item[x].fetches = 0)

\* C26: in every status response the figures completed, failed and pending
\* add up to total, and each is the number of rows of the table in memory
\* that are in that state.
C26_StatusConsistent ==
    (Idle /\ Loaded) =>
        /\ Status.completed + Status.failed + Status.pending = Status.total
        /\ Status.completed = Cardinality(CompletedRows)
        /\ Status.failed = Cardinality(FailedRows)
        /\ Status.pending = Cardinality(PendingRows)

\* C27: the cancellation event is raised only by a cancel() during a run
\* and is clear when a run starts, so an item is skipped only in a run that
\* cancel() was called in; a cancel request while no run is in progress
\* changes nothing: the event is not raised and nothing is flushed.
C27_SignalStep ==
    /\ (~running /\ running') => ~cancel_event'
    /\ (~cancel_event /\ cancel_event') => (running /\ stats.started_at \in signalled')
    /\ (~running /\ CancelRequest) => UNCHANGED <<fs, storeVars, flushVars, orchVars>>
C27_NoLeak ==
    /\ \A r \in Tasks : item[r].res = "skipped" => stats.started_at \in signalled
    /\ (running /\ cancel_event) => stats.started_at \in signalled
C27_CancelDoesNotLeak == [][C27_SignalStep]_vars /\ []C27_NoLeak

\* C27 witness: the first run was cancelled and has ended; in the second
\* run, which nobody cancelled, the event is clear, a task was created for
\* every row, none was skipped and one has called the fetcher.
C27_Witness ==
    /\ runpc[1] = "done" /\ 1 \in signalled
    /\ runpc[2] = "gather" /\ 2 \notin signalled /\ stats.started_at = 2
    /\ ~cancel_event
    /\ Tasks = RowIdx
    /\ \A r \in Tasks : item[r].res # "skipped"
    /\ \E r \in Tasks : item[r].fetches > 0
====
